---------------------------- MODULE Spec2Model ----------------------------
(***************************************************************************)
(* CelestePy/celeste_galaxy_conditionals.py: the galaxy light-profile      *)
(* likelihood, its mixed analytic / finite-difference gradient, the        *)
(* geometric transform, the profile-PSF image, the shape priors and the    *)
(* constrained / unconstrained parameter maps.                             *)
(*                                                                         *)
(* Numbers.  The code computes in float64.  The model computes in exact    *)
(* arithmetic: a real number is a rational n/d * 2^e2 * 5^e5 kept in       *)
(* canonical form (the two exponents keep 1/3600, 0.396 and 1e-5 small),   *)
(* and a value that contains logarithms is a rational plus a rational      *)
(* combination of logarithms of primes.  Rounding, overflow to inf and     *)
(* underflow of float64 are not modelled.                                  *)
(*                                                                         *)
(* Style.  An intermediate value that is used more than once is handed on  *)
(* as an operator argument rather than named in a LET, so that it is       *)
(* written, and evaluated, once.                                           *)
(***************************************************************************)
EXTENDS Integers, Sequences, FiniteSets, TLC

(***************************************************************************)
(* Exact rationals.                                                        *)
(***************************************************************************)
Abs(i) == IF i < 0 THEN -i ELSE i

Min(i, j) == IF i <= j THEN i ELSE j

\* a function or array with every entry computed once (TLC otherwise computes
\* f[k] anew at each use)
Stored(f) == f @@ << >>

RECURSIVE Gcd(_, _)
Gcd(i, j) == IF j = 0 THEN i ELSE Gcd(j, i % j)

RECURSIVE Pow(_, _)
Pow(base, k) == IF k = 0 THEN 1 ELSE base * Pow(base, k - 1)

\* how often the prime p divides i (i # 0)
RECURSIVE Mult(_, _)
Mult(i, p) == IF i % p = 0 THEN 1 + Mult(i \div p, p) ELSE 0

\* i without its factors 2 and 5 (i # 0)
Strip(i) == i \div (Pow(2, Mult(i, 2)) * Pow(5, Mult(i, 5)))

\* the record of n/d * 2^e2 * 5^e5, as given
Raw(n, d, e2, e5) == [n |-> n, d |-> d, e2 |-> e2, e5 |-> e5]

QZero == Raw(0, 1, 0, 0)

QOne == Raw(1, 1, 0, 0)

\* sgn * rn/rd * 2^x2 * 5^x5 in lowest terms (rn, rd > 0 without factors 2, 5)
QLowest(sgn, rn, rd, g, x2, x5) == Raw(sgn * (rn \div g), rd \div g, x2, x5)

\* canonical form of num/den * 2^x2 * 5^x5 (den # 0)
QNorm(num, den, x2, x5) ==
    IF num = 0 THEN QZero
    ELSE QLowest(IF (num < 0) = (den < 0) THEN 1 ELSE -1,
                 Strip(Abs(num)), Strip(Abs(den)), Gcd(Strip(Abs(num)), Strip(Abs(den))),
                 x2 + Mult(num, 2) - Mult(den, 2),
                 x5 + Mult(num, 5) - Mult(den, 5))

Q(num, den) == QNorm(num, den, 0, 0)

QInt(k) == Q(k, 1)

QNeg(x) == [x EXCEPT !.n = -x.n]

QMul(x, y) ==
    LET Product(g1, g2) == Raw((x.n \div g1) * (y.n \div g2), (x.d \div g2) * (y.d \div g1),
                               x.e2 + y.e2, x.e5 + y.e5)
    IN  IF x.n = 0 \/ y.n = 0 THEN QZero ELSE Product(Gcd(Abs(x.n), y.d), Gcd(Abs(y.n), x.d))

\* the common factor h of the numerators is taken out before the sum is formed
QAdd(x, y) ==
    LET Sum(m2, m5, g, h) ==
            QMul(Raw(h, 1, 0, 0),
                 QNorm((x.n \div h) * Pow(2, x.e2 - m2) * Pow(5, x.e5 - m5) * (y.d \div g)
                          + (y.n \div h) * Pow(2, y.e2 - m2) * Pow(5, y.e5 - m5) * (x.d \div g),
                       (x.d \div g) * y.d, m2, m5))
    IN  IF x.n = 0 THEN y
        ELSE IF y.n = 0 THEN x
        ELSE Sum(Min(x.e2, y.e2), Min(x.e5, y.e5), Gcd(x.d, y.d), Gcd(Abs(x.n), Abs(y.n)))

QSub(x, y) == QAdd(x, QNeg(y))

\* 1/x (x # 0)
QInv(x) == Raw(IF x.n < 0 THEN -x.d ELSE x.d, Abs(x.n), -x.e2, -x.e5)

QDiv(x, y) == QMul(x, QInv(y))

QSign(x) == IF x.n < 0 THEN -1 ELSE IF x.n = 0 THEN 0 ELSE 1

QLess(x, y) == QSign(QSub(x, y)) < 0

QLeq(x, y) == QSign(QSub(x, y)) <= 0

QMax(x, y) == IF QLess(x, y) THEN y ELSE x

QAbs(x) == IF x.n < 0 THEN QNeg(x) ELSE x

RECURSIVE QSumSeq(_)
QSumSeq(s) == IF s = << >> THEN QZero ELSE QAdd(Head(s), QSumSeq(Tail(s)))

(***************************************************************************)
(* Values with logarithms: lin + SUM_p logs[p] * log(p), p prime.  The     *)
(* logarithms of the primes are linearly independent over the rationals    *)
(* and (Lindemann) no non-zero combination of them is rational, so two     *)
(* such values are equal as real numbers iff they are equal as records.    *)
(***************************************************************************)
\* the prime factorisation of i >= 1 by trial division from p on, added to
\* acc, a function prime -> multiplicity
RECURSIVE FactorFrom(_, _, _)
FactorFrom(i, p, acc) ==
    IF i = 1 THEN acc
    ELSE IF p * p > i THEN (i :> 1) @@ acc
    ELSE IF i % p = 0
         THEN FactorFrom(i \div p, p,
                         IF p \in DOMAIN acc THEN [acc EXCEPT ![p] = @ + 1] ELSE (p :> 1) @@ acc)
         ELSE FactorFrom(i, p + 1, acc)

Coef(f, p) == IF p \in DOMAIN f THEN f[p] ELSE QZero

\* drop the zero coefficients of a stored f: the canonical form
Sparse(f) == Stored([p \in {r \in DOMAIN f : f[r] # QZero} |-> f[p]])

LogsAdd(f, g) ==
    Sparse(Stored([p \in (DOMAIN f) \cup (DOMAIN g) |-> QAdd(Coef(f, p), Coef(g, p))]))

LogsScale(c, f) == Sparse(Stored([p \in DOMAIN f |-> QMul(c, f[p])]))

L(q) == [lin |-> q, logs |-> << >>]

LZero == L(QZero)

LAdd(v, w) == [lin |-> QAdd(v.lin, w.lin), logs |-> LogsAdd(v.logs, w.logs)]

LScale(c, v) == [lin |-> QMul(c, v.lin), logs |-> LogsScale(c, v.logs)]

LNeg(v) == [lin |-> QNeg(v.lin), logs |-> Stored([p \in DOMAIN v.logs |-> QNeg(v.logs[p])])]

LSub(v, w) == LAdd(v, LNeg(w))

\* np.log of a positive rational
Log(q) ==
    LET Power(f, p) == IF p \in DOMAIN f THEN f[p] ELSE 0
        Logs(fn, fd) ==
            Sparse(Stored([p \in {2, 5} \cup DOMAIN fn \cup DOMAIN fd |->
                      QInt((IF p = 2 THEN q.e2 ELSE IF p = 5 THEN q.e5 ELSE 0)
                           + Power(fn, p) - Power(fd, p))]))
    IN  [lin |-> QZero, logs |-> Logs(FactorFrom(q.n, 3, << >>), FactorFrom(q.d, 3, << >>))]

(***************************************************************************)
(* 2 x 2 matrices of rationals, <<row1, row2>>.                            *)
(***************************************************************************)
MatScale(c, A) == Stored([r \in 1..2 |-> Stored([k \in 1..2 |-> QMul(c, A[r][k])])])

\* np.dot(A, B)
MatDot(A, B) ==
    Stored([r \in 1..2 |-> Stored([k \in 1..2 |->
        QAdd(QMul(A[r][1], B[1][k]), QMul(A[r][2], B[2][k]))])])

MatT(A) == << <<A[1][1], A[2][1]>>, <<A[1][2], A[2][2]>> >>

MatDet(A) == QSub(QMul(A[1][1], A[2][2]), QMul(A[1][2], A[2][1]))

Identity2 == <<<<QOne, QZero>>, <<QZero, QOne>>>>

\* the outcome "numpy.linalg.LinAlgError: Singular matrix" of a matrix computation
LinAlgError == << >>

\* np.linalg.inv: the inverse, or LinAlgError for a singular matrix
MatInv(A) ==
    LET Inverse(det) ==
            IF det = QZero THEN LinAlgError
            ELSE MatScale(QInv(det), <<<<A[2][2], QNeg(A[1][2])>>, <<QNeg(A[2][1]), A[1][1]>>>>)
    IN  Inverse(MatDet(A))

(***************************************************************************)
(* np.cos, np.sin.  The cosine and sine of a rational angle are            *)
(* irrational; the model gives each angle a rational point of the upper    *)
(* unit semicircle, chosen by the angle's position on the grid of step     *)
(* 1e-5, so that cp^2 + sp^2 = 1 holds exactly and neighbouring grid       *)
(* angles get different points.                                            *)
(***************************************************************************)
\* (4/5, 3/5), (3/5, 4/5), (5/13, 12/13), (0, 1), (-5/13, 12/13), (-3/5, 4/5), (-4/5, 3/5)
UnitCirclePoints ==
    << <<Raw(1, 1, 2, -1), Raw(3, 1, 0, -1)>>, <<Raw(3, 1, 0, -1), Raw(1, 1, 2, -1)>>,
       <<Raw(1, 13, 0, 1), Raw(3, 13, 2, 0)>>, <<QZero, QOne>>,
       <<Raw(-1, 13, 0, 1), Raw(3, 13, 2, 0)>>, <<Raw(-3, 1, 0, -1), Raw(1, 1, 2, -1)>>,
       <<Raw(-1, 1, 2, -1), Raw(3, 1, 0, -1)>> >>

\* floor of a rational whose value is small
QFloor(q) ==
    LET Floor(num, den) == IF num >= 0 THEN num \div den ELSE -((-num + den - 1) \div den)
    IN  Floor(q.n * (IF q.e2 > 0 THEN Pow(2, q.e2) ELSE 1) * (IF q.e5 > 0 THEN Pow(5, q.e5) ELSE 1),
              q.d * (IF q.e2 < 0 THEN Pow(2, -q.e2) ELSE 1) * (IF q.e5 < 0 THEN Pow(5, -q.e5) ELSE 1))

\* the angle's position on the grid of step 1e-5
GridIndex(phi) == QFloor(QMul(phi, Raw(1, 1, 5, 5)))

Cos(phi) == UnitCirclePoints[1 + (GridIndex(phi) % Len(UnitCirclePoints))][1]

Sin(phi) == UnitCirclePoints[1 + (GridIndex(phi) % Len(UnitCirclePoints))][2]

(***************************************************************************)
(* gen_galaxy_transformation                                               *)
(***************************************************************************)
\* re_deg = max(1./30, sig_s) / 3600., with the floor at 1/40
ReDeg_LowerFloor(sig_s) == QDiv(QMax(Q(1, 40), sig_s), QInt(3600))

\* re_deg = max(1./30, sig_s) / 3600.
ReDeg(sig_s) == QDiv(QMax(Q(1, 30), sig_s), QInt(3600))

\* G = re_deg * np.array([[cp, sp * rho_s], [-sp, cp * rho_s]])
GMatrix(re_deg, cp, sp, rho_s) ==
    MatScale(re_deg, Stored([r \in 1..2 |->
        <<IF r = 1 THEN cp ELSE QNeg(sp), QMul(IF r = 1 THEN sp ELSE cp, rho_s)>>]))

\* cd = np.array([[0.396/3600, 0.], [0., 0.396/3600.]])
CdMatrix == MatScale(Q(396, 3600000), Identity2)

\* T = np.dot(np.linalg.inv(G), cd)
TMatrix(G) ==
    LET Dot(invG) == IF invG = LinAlgError THEN LinAlgError ELSE MatDot(invG, CdMatrix)
    IN  Dot(MatInv(G))

\* Tinv taken to be the transpose of T
TinvMatrix_Transpose(T) == IF T = LinAlgError THEN LinAlgError ELSE MatT(T)

\* Tinv = np.linalg.inv(T)
TinvMatrix(T) == IF T = LinAlgError THEN LinAlgError ELSE MatInv(T)

\* every intermediate of gen_galaxy_transformation
GalaxyTransformation(sig_s, rho_s, phi_s) ==
    LET FromT(re_deg, G, T) == [re_deg |-> re_deg, G |-> G, T |-> T, Tinv |-> TinvMatrix(T)]
        FromG(re_deg, G)    == FromT(re_deg, G, TMatrix(G))
        FromRadius(re_deg)  == FromG(re_deg, GMatrix(re_deg, Cos(phi_s), Sin(phi_s), rho_s))
    IN  FromRadius(ReDeg(sig_s))

\* the value gen_galaxy_transformation returns (LinAlgError when an inversion raises)
gen_galaxy_transformation(sig_s, rho_s, phi_s) == GalaxyTransformation(sig_s, rho_s, phi_s).Tinv

(***************************************************************************)
(* 2-D numpy arrays: a sequence of rows, each a sequence of entries.       *)
(***************************************************************************)
Shape(A) == <<Len(A), IF Len(A) = 0 THEN 0 ELSE Len(A[1])>>

\* flat.reshape(shape): row-major
Reshape(flat, shape) ==
    Stored([r \in 1..shape[1] |-> Stored([c \in 1..shape[2] |-> flat[(r - 1) * shape[2] + c]])])

\* A.T
ArrT(A) == Stored([r \in 1..Shape(A)[2] |-> Stored([c \in 1..Shape(A)[1] |-> A[c][r]])])

\* the entries of A in one sequence, row by row
Flat(A) == Stored([k \in 1..(Len(A) * Shape(A)[2]) |->
               A[1 + ((k - 1) \div Shape(A)[2])][1 + ((k - 1) % Shape(A)[2])]])

RECURSIVE LSumSeq(_)
LSumSeq(s) == IF s = << >> THEN LZero ELSE LAdd(Head(s), LSumSeq(Tail(s)))

\* np.sum of an array of rationals
ArrSum(A) == QSumSeq(Flat(A))

\* np.sum of an array of values with logarithms
ArrLSum(A) == LSumSeq(Flat(A))

(***************************************************************************)
(* The profile registry and the two compiled routines the image is built   *)
(* from.  CelestePy.mixture_profiles, celeste_fast and gmm_like_fast are   *)
(* not part of the source here; they are modelled from the design text.    *)
(***************************************************************************)
BANDS == <<"u", "g", "r", "i", "z">>

\* mp.get_exp_mixture(): amplitudes 1/2, 1/2 and variances 1/2, 2 of the
\* Gaussian components
get_exp_mixture == [amp |-> <<Raw(1, 1, -1, 0), Raw(1, 1, -1, 0)>>,
                    var |-> <<Raw(1, 1, -1, 0), Raw(1, 1, 1, 0)>>]

\* mp.get_dev_mixture(): amplitudes 1/4, 3/4 and variances 1/4, 3
get_dev_mixture == [amp |-> <<Raw(1, 1, -2, 0), Raw(3, 1, -2, 0)>>,
                    var |-> <<Raw(1, 1, -2, 0), Raw(3, 1, 0, 0)>>]

galaxy_profs == <<get_exp_mixture, get_dev_mixture>>

galaxy_prof_dict == ("exp" :> galaxy_profs[1]) @@ ("dev" :> galaxy_profs[2])

\* np.dot(R, R.T) as it is handed to the compiled routine.  With one shape
\* parameter displaced by 1e-5 its entries need more digits than TLC's
\* integers hold, so the product is carried by its two factors.
GramOf(R) == [left |-> R, right |-> MatT(R)]

\* celeste_fast.gen_galaxy_prof_psf_mixture_params: one component per pair
\* (PSF component k, profile component j): weight w_k * a_j, mean v_s + m_k,
\* covariance C_k + s_j * W (kept as its three parts)
gen_galaxy_prof_psf_mixture_params(W, v_s, image_ws, image_means, image_covars, gal_prof_amp, gal_prof_sigs) ==
    LET kOf(c) == 1 + ((c - 1) \div Len(gal_prof_amp))
        jOf(c) == 1 + ((c - 1) % Len(gal_prof_amp))
        All    == 1..(Len(image_ws) * Len(gal_prof_amp))
    IN  [weights |-> Stored([c \in All |-> QMul(image_ws[kOf(c)], gal_prof_amp[jOf(c)])]),
         means   |-> Stored([c \in All |->
                        Stored([a \in 1..2 |-> QAdd(v_s[a], image_means[kOf(c)][a])])]),
         covars  |-> Stored([c \in All |->
                        [C |-> image_covars[kOf(c)], s |-> gal_prof_sigs[jOf(c)], W |-> W]])]

QDigest(q) == Abs(q.n) + q.d + Abs(q.e2) + Abs(q.e5) + (IF q.n < 0 THEN 1 ELSE 0)

MatDigest(A) == QDigest(A[1][1]) + QDigest(A[1][2]) + QDigest(A[2][1]) + QDigest(A[2][2])

\* the values the stand-in kernel takes: 1, 1/2, 1/3
KernelValues == <<QOne, Raw(1, 1, -1, 0), Raw(1, 3, 0, 0)>>

\* The bivariate normal density of displacement d under covariance cov is
\* not a rational number.  Its stand-in is positive and is a function of the
\* displacement and of the covariance (its three parts) alone.
Kernel(d, cov) ==
    KernelValues[1 + ((QDigest(d[1]) + QDigest(d[2]) + MatDigest(cov.C) + QDigest(cov.s)
                       + MatDigest(cov.W.left)) % Len(KernelValues))]

\* gmm_like_2d at one point: the weighted sum of the component densities
gmm_like_2d(pt, ws, mus, sigs) ==
    QSumSeq(Stored([c \in 1..Len(ws) |->
               QMul(ws[c], Kernel(Stored([a \in 1..2 |-> QSub(pt[a], mus[c][a])]), sigs[c]))]))

\* fast_gmm_like: one density per row of x
fast_gmm_like(pts, ws, mus, sigs) ==
    Stored([k \in 1..Len(pts) |-> gmm_like_2d(pts[k], ws, mus, sigs)])

(***************************************************************************)
(* gen_galaxy_prof_psf_image                                               *)
(***************************************************************************)
AssertionError == "AssertionError: unknown galaxy profile type"

\* a dictionary that claims to hold every key
has_key_Always(dict, key) == TRUE

\* dict.has_key(key)
has_key(dict, key) == key \in DOMAIN dict

\* the mixture components of the convolved profile
ProfPsfMixture(prof_type, R, u, img) ==
    gen_galaxy_prof_psf_mixture_params(GramOf(R), u, img.weights, img.means, img.covars,
                                       galaxy_prof_dict[prof_type].amp,
                                       galaxy_prof_dict[prof_type].var)

\* psf_grid = fast_gmm_like(x = img.pixel_grid, ws = weights, mus = means, sigs = covars)
ProfPsfGrid(mix, img) == fast_gmm_like(img.pixel_grid, mix.weights, mix.means, mix.covars)

\* the last statement: psf_grid.reshape(img.nelec.shape).T
ProfPsfReturn(psf_grid, img) == ArrT(Reshape(psf_grid, Shape(img.nelec)))

\* [raised, value]: the exception raised ("" for none) and the array returned
gen_galaxy_prof_psf_image(prof_type, R, u, img) ==
    IF ~has_key(galaxy_prof_dict, prof_type)
    THEN [raised |-> AssertionError, value |-> << >>]
    ELSE [raised |-> "",
          value  |-> ProfPsfReturn(ProfPsfGrid(ProfPsfMixture(prof_type, R, u, img), img), img)]

(***************************************************************************)
(* galaxy_source_like                                                      *)
(***************************************************************************)
\* dict(zip(BANDS, th[-5:]))
BandDict(t) == Stored([b \in {BANDS[k] : k \in 1..Len(BANDS)} |->
                  t[Len(t) - Len(BANDS) + (CHOOSE k \in 1..Len(BANDS) : BANDS[k] = b)]])

\* f_nms_exp and f_nms_dev
ProfileImages(R_s, u_s, img) ==
    Stored([p \in {"exp", "dev"} |-> gen_galaxy_prof_psf_image(p, R_s, u_s, img).value])

\* f_nms = theta_s * f_nms_exp + (1. - theta_s) * f_nms_dev
MixProfiles(theta_s, f_nms_exp, f_nms_dev) ==
    Stored([r \in 1..Len(f_nms_exp) |-> Stored([c \in 1..Len(f_nms_exp[r]) |->
        QAdd(QMul(theta_s, f_nms_exp[r][c]), QMul(QSub(QOne, theta_s), f_nms_dev[r][c]))])])

\* image_flux = (bs[img.band] / img.calib) * img.kappa
ImageFlux(bs, img) == QMul(QDiv(bs[img.band], img.calib), img.kappa)

\* one entry of Z_s[n] * np.log(lam) - lam
PixelTerm(z, lam) == LSub(LScale(QInt(z), Log(lam)), L(lam))

\* one pass of the loop body: the summand image n adds to ll (the image and
\* the count array have the same, square, shape)
LikeTerm(theta_s, R_s, u_s, bs, Zn, img) ==
    LET Summed(f_nms) ==
            ArrLSum(Stored([r \in 1..Len(f_nms) |-> Stored([c \in 1..Len(f_nms[r]) |->
                PixelTerm(Zn[r][c], QMul(ImageFlux(bs, img), f_nms[r][c]))])]))
        Mixed(f) == Summed(MixProfiles(theta_s, f["exp"], f["dev"]))
    IN  Mixed(ProfileImages(R_s, u_s, img))

\* ll = ... in place of ll += ...
LikeStep_Overwrite(acc, theta_s, R_s, u_s, bs, Z, imgs, n) ==
    LikeTerm(theta_s, R_s, u_s, bs, Z[n + 1], imgs[n + 1])

\* ll += ... for image n (n counts from 0, as enumerate does)
LikeStep(acc, theta_s, R_s, u_s, bs, Z, imgs, n) ==
    LAdd(acc, LikeTerm(theta_s, R_s, u_s, bs, Z[n + 1], imgs[n + 1]))

\* the accumulator after the first k passes of the loop
RECURSIVE LikeLoop(_, _, _, _, _, _, _)
LikeLoop(theta_s, R_s, u_s, bs, Z, imgs, k) ==
    IF k = 0 THEN LZero
    ELSE LikeStep(LikeLoop(theta_s, R_s, u_s, bs, Z, imgs, k - 1),
                  theta_s, R_s, u_s, bs, Z, imgs, k - 1)

galaxy_source_like(t, Z, imgs) ==
    LikeLoop(t[1], gen_galaxy_transformation(t[2], t[4], t[3]), <<t[5], t[6]>>, BandDict(t),
             Z, imgs, Len(imgs))

(***************************************************************************)
(* galaxy_source_like_grad                                                 *)
(***************************************************************************)
\* grad_theta_s += np.sum((Z_s[n]/f_nms - bs[img.band])*f_nms_diff)
GradThetaStep(acc, theta_s, R_s, u_s, bs, Zn, img) ==
    LET Summed(f, f_nms) ==
            QAdd(acc, ArrSum(Stored([r \in 1..Len(f_nms) |-> Stored([c \in 1..Len(f_nms[r]) |->
                QMul(QSub(QDiv(QInt(Zn[r][c]), f_nms[r][c]), bs[img.band]),
                     QSub(f["exp"][r][c], f["dev"][r][c]))])])))
        Mixed(f) == Summed(f, MixProfiles(theta_s, f["exp"], f["dev"]))
    IN  Mixed(ProfileImages(R_s, u_s, img))

\* grad_bs[img.band] += 1./bs[img.band]*np.sum(Z_s[n]) - np.sum(f_nms)
GradBandStep(acc, theta_s, R_s, u_s, bs, Zn, img) ==
    LET Mixed(f) == MixProfiles(theta_s, f["exp"], f["dev"])
    IN  QAdd(acc,
             QSub(QMul(QDiv(QOne, bs[img.band]),
                       ArrSum(Stored([r \in 1..Len(Zn) |-> Stored([c \in 1..Len(Zn[r]) |->
                           QInt(Zn[r][c])])]))),
                  ArrSum(Mixed(ProfileImages(R_s, u_s, img)))))

numerical_inds == <<1, 2, 3, 4, 5>>

\* de = np.zeros(th.shape); de[th_i] = 1e-5
De(t, th_i) == Stored([k \in 1..Len(t) |-> IF k = th_i + 1 THEN Raw(1, 1, -5, -5) ELSE QZero])

VecAdd(v, w) == Stored([k \in 1..Len(v) |-> QAdd(v[k], w[k])])

VecSub(v, w) == Stored([k \in 1..Len(v) |-> QSub(v[k], w[k])])

\* a one-sided difference: the second evaluation at th itself
NumericalStep_OneSided(t, Z, imgs, th_i) ==
    LET Quotient(de, plus, minus) ==
            [plus    |-> plus,
             minus   |-> minus,
             partial |-> LScale(QInv(QMul(QInt(2), de[th_i + 1])),
                                LSub(galaxy_source_like(plus, Z, imgs),
                                     galaxy_source_like(minus, Z, imgs))),
             th      |-> t]
        Displace(de) == Quotient(de, VecAdd(t, de), t)
    IN  Displace(De(t, th_i))

\* one pass of the numerical loop for parameter th_i: the two vectors handed
\* to galaxy_source_like, grad_RU[i], and the caller's vector afterwards
\* (th+de and th-de are new arrays)
NumericalStep(t, Z, imgs, th_i) ==
    LET Quotient(de, plus, minus) ==
            [plus    |-> plus,
             minus   |-> minus,
             partial |-> LScale(QInv(QMul(QInt(2), de[th_i + 1])),
                                LSub(galaxy_source_like(plus, Z, imgs),
                                     galaxy_source_like(minus, Z, imgs))),
             th      |-> t]
        Displace(de) == Quotient(de, VecAdd(t, de), VecSub(t, de))
    IN  Displace(De(t, th_i))

\* the three blocks concatenated in the opposite order
PackGradient_FluxFirst(g_theta_s, g_RU, g_bs) ==
    [k \in 1..Len(BANDS) |-> L(g_bs[BANDS[k]])] \o g_RU \o <<L(g_theta_s)>>

\* np.concatenate([[grad_theta_s], grad_RU, np.array([grad_bs[b] for b in BANDS])])
PackGradient(g_theta_s, g_RU, g_bs) ==
    <<L(g_theta_s)>> \o g_RU \o [k \in 1..Len(BANDS) |-> L(g_bs[BANDS[k]])]

(***************************************************************************)
(* The caller's data.                                                      *)
(***************************************************************************)
\* the pixel coordinates of an image with H rows and W columns, one row of
\* pixel_grid per pixel, the column index varying slowest
PixelGrid(H, W) == Stored([k \in 1..(H * W) |-> <<QInt((k - 1) \div H), QInt((k - 1) % H)>>])

\* a FitsImage: band, calibration, gain, counts, pixel grid and PSF mixture
FitsImage(band, calib, kappa, nelec, psf) ==
    [band |-> band, calib |-> calib, kappa |-> kappa, nelec |-> nelec,
     pixel_grid |-> PixelGrid(Len(nelec), Len(nelec[1])),
     weights |-> psf.weights, means |-> psf.means, covars |-> psf.covars]

Psf1 == [weights |-> <<QOne>>, means |-> << <<QZero, QZero>> >>, covars |-> <<Identity2>>]

Psf2 == [weights |-> <<Q(3, 4), Q(1, 4)>>,
         means   |-> << <<QZero, QZero>>, <<Q(1, 2), QZero>> >>,
         covars  |-> <<Identity2, MatScale(QInt(2), Identity2)>>]

\* the largest number of images in one call
MaxImages == 2

ImagePool ==
    { FitsImage("z", QInt(1), QInt(1), <<<<2>>>>, Psf2),
      FitsImage("u", QInt(2), QInt(1), <<<<1, 0>>, <<2, 1>>>>, Psf1),
      FitsImage("z", QInt(3), QInt(3), <<<<1>>>>, Psf1) }

\* the count arrays the caller may pass with an image: the image's own
\* counts, as the module's self-test does, or, for a one-pixel image, none
CountArrays(img) ==
    IF Shape(img.nelec) = <<1, 1>> /\ img.calib = QOne THEN {img.nelec, <<<<0>>>>} ELSE {img.nelec}

ThetaValues == {Q(1, 4)}

SigmaValues == {Q(-1, 100), Q(1, 40), Q(1, 30), Q(1, 25)}

PhiValues == {Q(1, 2)}

RhoValues == {Q(1, 4)}

FluxValues == {<<QInt(2), QInt(1), QInt(3), QInt(5), QInt(7)>>}

ParamVectors ==
    {<<a, s, p, r, QZero, QZero>> \o f :
        a \in ThetaValues, s \in SigmaValues, p \in PhiValues, r \in RhoValues, f \in FluxValues}

VARIABLES
    th,            \* the caller's parameter vector
    Z_s,           \* the caller's list of count arrays
    images,        \* the caller's list of images
    pc,            \* "idle", "like", "like_returned", "grad", "grad_returned"
    n,             \* the image loop's index
    i,             \* the numerical loop's index
    ll,            \* galaxy_source_like's accumulator
    ret,           \* the value galaxy_source_like returned
    grad_theta_s,
    grad_bs,
    grad_RU,
    th_grad,       \* the vector galaxy_source_like_grad returned
    calls,         \* the vectors handed to galaxy_source_like by the numerical loop
    entry,         \* the caller's data when the call was made
    call           \* a call of one of the module's other functions: its arguments, position and locals

likeVars == <<th, Z_s, images, pc, n, i, ll, ret, grad_theta_s, grad_bs, grad_RU, th_grad,
              calls, entry>>

vars == <<likeVars, call>>

NoCall == [at |-> "none"]

ZeroBands == [b \in {BANDS[k] : k \in 1..Len(BANDS)} |-> QZero]

Init ==
    /\ th \in ParamVectors
    /\ \E len \in 1..MaxImages :
         /\ images \in [1..len -> ImagePool]
         /\ \A a, b \in 1..len : images[a] = images[b] => a = b
         /\ Z_s \in [1..len -> UNION {CountArrays(im) : im \in ImagePool}]
         /\ \A k \in 1..len : Z_s[k] \in CountArrays(images[k])
    /\ pc = "idle"
    /\ n = 0
    /\ i = 0
    /\ ll = LZero
    /\ ret = LZero
    /\ grad_theta_s = QZero
    /\ grad_bs = ZeroBands
    /\ grad_RU = [k \in 1..Len(numerical_inds) |-> LZero]
    /\ th_grad = << >>
    /\ calls = << >>
    /\ entry = [th |-> th, Z_s |-> Z_s, images |-> images]
    /\ call = NoCall

theta_s == th[1]

R_s == gen_galaxy_transformation(th[2], th[4], th[3])

u_s == <<th[5], th[6]>>

bs == BandDict(th)

\* galaxy_source_like is called: ll = 0.
LikeCall ==
    /\ pc = "idle"
    /\ pc' = "like"
    /\ n' = 0
    /\ ll' = LZero
    /\ UNCHANGED <<th, Z_s, images, i, ret, grad_theta_s, grad_bs, grad_RU, th_grad, calls, entry, call>>

\* one pass of its loop
LikeImage ==
    /\ pc = "like"
    /\ n < Len(images)
    /\ ll' = LikeStep(ll, theta_s, R_s, u_s, bs, Z_s, images, n)
    /\ n' = n + 1
    /\ UNCHANGED <<th, Z_s, images, pc, i, ret, grad_theta_s, grad_bs, grad_RU, th_grad, calls, entry, call>>

\* return ll
LikeReturn ==
    /\ pc = "like"
    /\ n = Len(images)
    /\ ret' = ll
    /\ pc' = "like_returned"
    /\ UNCHANGED <<th, Z_s, images, n, i, ll, grad_theta_s, grad_bs, grad_RU, th_grad, calls, entry, call>>

\* galaxy_source_like_grad is called
GradCall ==
    /\ pc = "idle"
    /\ pc' = "grad"
    /\ n' = 0
    /\ i' = 0
    /\ grad_theta_s' = QZero
    /\ grad_bs' = ZeroBands
    /\ grad_RU' = [k \in 1..Len(numerical_inds) |-> LZero]
    /\ calls' = << >>
    /\ UNCHANGED <<th, Z_s, images, ll, ret, th_grad, entry, call>>

\* one pass of the loop over the images
GradImage ==
    /\ pc = "grad"
    /\ n < Len(images)
    /\ grad_theta_s' = GradThetaStep(grad_theta_s, theta_s, R_s, u_s, bs, Z_s[n + 1], images[n + 1])
    /\ grad_bs' = [grad_bs EXCEPT ![images[n + 1].band] =
                      GradBandStep(@, theta_s, R_s, u_s, bs, Z_s[n + 1], images[n + 1])]
    /\ n' = n + 1
    /\ UNCHANGED <<th, Z_s, images, pc, i, ll, ret, grad_RU, th_grad, calls, entry, call>>

\* one pass of the loop over numerical_inds
GradNumerical ==
    /\ pc = "grad"
    /\ n = Len(images)
    /\ i < Len(numerical_inds)
    /\ LET Taken(step) ==
               /\ grad_RU' = [grad_RU EXCEPT ![i + 1] = step.partial]
               /\ calls' = calls \o <<step.plus, step.minus>>
               /\ th' = step.th
       IN  Taken(NumericalStep(th, Z_s, images, numerical_inds[i + 1]))
    /\ i' = i + 1
    /\ UNCHANGED <<Z_s, images, pc, n, ll, ret, grad_theta_s, grad_bs, th_grad, entry, call>>

\* pack gradient and return
GradReturn ==
    /\ pc = "grad"
    /\ n = Len(images)
    /\ i = Len(numerical_inds)
    /\ th_grad' = PackGradient(grad_theta_s, grad_RU, grad_bs)
    /\ pc' = "grad_returned"
    /\ UNCHANGED <<th, Z_s, images, n, i, ll, ret, grad_theta_s, grad_bs, grad_RU, calls, entry, call>>

Next == LikeCall \/ LikeImage \/ LikeReturn \/ GradCall \/ GradImage \/ GradNumerical \/ GradReturn

Spec == Init /\ [][Next]_vars

(***************************************************************************)
(* Properties of galaxy_source_like and galaxy_source_like_grad.           *)
(***************************************************************************)
\* the vector equal to t but for entry k (counted from 0), displaced by d
Displaced(t, k, d) == Stored([j \in 1..Len(t) |-> IF j = k + 1 THEN QAdd(t[j], d) ELSE t[j]])

Eps == Raw(1, 1, -5, -5)

\* the per-image summand of the likelihood, from the caller's data alone
OwnTerm(k) ==
    LikeTerm(entry.th[1], gen_galaxy_transformation(entry.th[2], entry.th[4], entry.th[3]),
             <<entry.th[5], entry.th[6]>>, BandDict(entry.th), entry.Z_s[k], entry.images[k])

\* the summands added last image first
RECURSIVE SumFrom(_)
SumFrom(k) == IF k > Len(entry.images) THEN LZero ELSE LAdd(SumFrom(k + 1), OwnTerm(k))

Perms(len) == {p \in [1..len -> 1..len] : \A a, b \in 1..len : p[a] = p[b] => a = b}

Reordered(s, p) == Stored([k \in 1..Len(s) |-> s[p[k]]])

\* C5: galaxy_source_like returns the sum of the per-image terms, each a
\* function of its own image, its own counts and th only, and so returns the
\* same total for every joint reordering of the images and the count arrays.
C5_LikeSymmetric ==
    /\ pc = "like" => ll = LSumSeq(Stored([k \in 1..n |-> OwnTerm(k)]))
    /\ pc = "like_returned" =>
         /\ ret = SumFrom(1)
         /\ \A p \in Perms(Len(images)) :
               galaxy_source_like(th, Reordered(Z_s, p), Reordered(images, p)) = ret

\* a call on two or more images of different bands has returned
C5_Witness ==
    /\ pc = "like_returned"
    /\ Len(images) >= 2
    /\ images[1].band # images[2].band
    /\ OwnTerm(1) # OwnTerm(2)

\* the central difference quotient of the likelihood in entry k (from 0)
CentralDifference(k) ==
    LScale(QInv(QMul(QInt(2), Eps)),
           LSub(galaxy_source_like(Displaced(entry.th, k, Eps), entry.Z_s, entry.images),
                galaxy_source_like(Displaced(entry.th, k, QNeg(Eps)), entry.Z_s, entry.images)))

\* C9: the numerical loop evaluates galaxy_source_like at th + e_i*1e-5 and
\* then at th - e_i*1e-5 for i = 1..5 in that order, ten evaluations in all;
\* each vector differs from th in entry i only; entries 0 and 6..10 are never
\* displaced; partial i is the central difference quotient; the caller's
\* vector, count arrays and images are unchanged.
C9_NumericalLoop ==
    (pc \in {"grad", "grad_returned"}) =>
        /\ Len(calls) = 2 * i
        /\ \A k \in 1..i :
              /\ calls[2 * k - 1] = Displaced(entry.th, k, Eps)
              /\ calls[2 * k] = Displaced(entry.th, k, QNeg(Eps))
              /\ \A j \in {1} \cup 7..11 :
                    calls[2 * k - 1][j] = entry.th[j] /\ calls[2 * k][j] = entry.th[j]
              /\ grad_RU[k] =
                    LScale(QInv(QMul(QInt(2), Eps)),
                           LSub(galaxy_source_like(calls[2 * k - 1], Z_s, images),
                                galaxy_source_like(calls[2 * k], Z_s, images)))
        /\ pc = "grad_returned" => Len(calls) = 10
        /\ th = entry.th
        /\ Z_s = entry.Z_s
        /\ images = entry.images

\* the gradient has returned and some partial is not zero
C9_Witness ==
    /\ pc = "grad_returned"
    /\ \E k \in 1..5 : grad_RU[k] # LZero

\* the exact sum over the images of band b of the flux terms
BandTotal(b) ==
    LET Own(k) == IF entry.images[k].band = b
                  THEN GradBandStep(QZero, entry.th[1],
                           gen_galaxy_transformation(entry.th[2], entry.th[4], entry.th[3]),
                           <<entry.th[5], entry.th[6]>>, BandDict(entry.th),
                           entry.Z_s[k], entry.images[k])
                  ELSE QZero
    IN  QSumSeq(Stored([k \in 1..Len(entry.images) |-> Own(k)]))

ThetaTotal ==
    QSumSeq(Stored([k \in 1..Len(entry.images) |->
        GradThetaStep(QZero, entry.th[1],
            gen_galaxy_transformation(entry.th[2], entry.th[4], entry.th[3]),
            <<entry.th[5], entry.th[6]>>, BandDict(entry.th), entry.Z_s[k], entry.images[k])]))

\* C3: the gradient has the length of th, 11; entry 0 is the theta partial,
\* entries 1..5 the difference quotients of th[1]..th[5] in that order, and
\* entries 6..10 the flux partials in the order u, g, r, i, z, whatever the
\* order and the bands of the images.
C3_GradientPacking ==
    pc = "grad_returned" =>
        /\ Len(th) = 11
        /\ Len(th_grad) = Len(th)
        /\ th_grad[1] = L(ThetaTotal)
        /\ \A k \in 1..5 : th_grad[k + 1] = CentralDifference(k)
        /\ \A k \in 1..5 : th_grad[6 + k] = L(BandTotal(<<"u", "g", "r", "i", "z">>[k]))

\* the gradient has returned for images whose bands are not in the order of
\* BANDS, with different flux partials
C3_Witness ==
    /\ pc = "grad_returned"
    /\ Len(images) >= 2
    /\ images[1].band = "z"
    /\ images[2].band = "u"
    /\ th_grad[7] # th_grad[11]
    /\ th_grad[2] # th_grad[3]

ThirtiethArcsec == Q(1, 30)

FlooredSigmas == {Q(-1, 1), QZero, Q(1, 40), Q(3333, 100000)}

\* C10: for every sigma <= 1/30, zero and negative ones included,
\* gen_galaxy_transformation returns what it returns for sigma = 1/30 with
\* the same rho and phi; galaxy_source_like is constant in sigma there; and
\* the sigma entry of the gradient is exactly 0 when sigma + 1e-5 <= 1/30.
C10_RadiusFloor ==
    /\ LET AtFloor == galaxy_source_like([th EXCEPT ![2] = ThirtiethArcsec], Z_s, images)
       IN \A s \in FlooredSigmas \cup {th[2]} :
          QLeq(s, ThirtiethArcsec) =>
              /\ gen_galaxy_transformation(s, th[4], th[3])
                    = gen_galaxy_transformation(ThirtiethArcsec, th[4], th[3])
              /\ pc = "idle" =>
                    galaxy_source_like([th EXCEPT ![2] = s], Z_s, images) = AtFloor
    /\ (pc = "grad_returned" /\ QLeq(QAdd(th[2], Eps), ThirtiethArcsec)) => th_grad[2] = LZero

\* the gradient has returned for a sigma below the floor, and for that call
\* the partials of the other shape parameters are not all zero
C10_Witness ==
    /\ pc = "grad_returned"
    /\ QLeq(QAdd(th[2], Eps), ThirtiethArcsec)
    /\ th_grad[2] = LZero
    /\ \E k \in 3..6 : th_grad[k] # LZero

\* the partial derivative of galaxy_source_like in theta: lam is
\* c * (theta * f_exp + (1 - theta) * f_dev) with c = flux / calib * kappa, so
\* d/dtheta sum(Z * log(lam) - lam) = sum((Z / f - c) * (f_exp - f_dev))
DLikeDTheta ==
    LET t       == entry.th
        R       == gen_galaxy_transformation(t[2], t[4], t[3])
        Own(k)  ==
            LET img   == entry.images[k]
                fe    == gen_galaxy_prof_psf_image("exp", R, <<t[5], t[6]>>, img).value
                fd    == gen_galaxy_prof_psf_image("dev", R, <<t[5], t[6]>>, img).value
                f     == MixProfiles(t[1], fe, fd)
                c     == QMul(QDiv(BandDict(t)[img.band], img.calib), img.kappa)
            IN  ArrSum(Stored([r \in 1..Len(f) |-> Stored([cc \in 1..Len(f[r]) |->
                   QMul(QSub(QDiv(QInt(entry.Z_s[k][r][cc]), f[r][cc]), c),
                        QSub(fe[r][cc], fd[r][cc]))])]))
    IN  QSumSeq(Stored([k \in 1..Len(entry.images) |-> Own(k)]))

\* the partial derivative in the flux of band b:
\* d/db sum(Z * log(b * g) - b * g) = sum(Z) / b - sum(g), g = kappa / calib * f
DLikeDFlux(b) ==
    LET t       == entry.th
        R       == gen_galaxy_transformation(t[2], t[4], t[3])
        Own(k)  ==
            LET img   == entry.images[k]
                fe    == gen_galaxy_prof_psf_image("exp", R, <<t[5], t[6]>>, img).value
                fd    == gen_galaxy_prof_psf_image("dev", R, <<t[5], t[6]>>, img).value
                f     == MixProfiles(t[1], fe, fd)
                sumZ  == ArrSum(Stored([r \in 1..Len(f) |-> Stored([cc \in 1..Len(f[r]) |->
                            QInt(entry.Z_s[k][r][cc])])]))
            IN  IF img.band # b THEN QZero
                ELSE QSub(QDiv(sumZ, BandDict(t)[b]),
                          QMul(QDiv(img.kappa, img.calib), ArrSum(f)))
    IN  QSumSeq(Stored([k \in 1..Len(entry.images) |-> Own(k)]))

\* |a - b| <= 1e-4 * |b|
Within1e4(a, b) == QLeq(QMul(QInt(10000), QAbs(QSub(a, b))), QAbs(b))

\* C1: the theta entry and the five flux entries of the gradient are the
\* partial derivatives of galaxy_source_like, to within 1e-4 relative error,
\* whatever the calibration and the gain of the images.
C1_ExactPartials ==
    pc = "grad_returned" =>
        /\ Within1e4(th_grad[1].lin, DLikeDTheta)
        /\ \A k \in 1..5 : Within1e4(th_grad[6 + k].lin, DLikeDFlux(BANDS[k]))

\* the same, for the calls in which every image has calib = kappa
C1_ExactPartialsUnitGain ==
    (pc = "grad_returned" /\ \A k \in 1..Len(images) : images[k].calib = images[k].kappa) =>
        /\ Within1e4(th_grad[1].lin, DLikeDTheta)
        /\ \A k \in 1..5 : Within1e4(th_grad[6 + k].lin, DLikeDFlux(BANDS[k]))

(***************************************************************************)
(* One call of gen_galaxy_prof_psf_image, statement by statement, on the   *)
(* matrix gen_galaxy_transformation returns, as gen_galaxy_psf_image and   *)
(* galaxy_source_like make it.                                             *)
(***************************************************************************)
\* no likelihood or gradient call is in progress
NoLikeCall ==
    /\ th = << >>
    /\ Z_s = << >>
    /\ images = << >>
    /\ pc = "idle"
    /\ n = 0
    /\ i = 0
    /\ ll = LZero
    /\ ret = LZero
    /\ grad_theta_s = QZero
    /\ grad_bs = ZeroBands
    /\ grad_RU = << >>
    /\ th_grad = << >>
    /\ calls = << >>
    /\ entry = << >>

\* images of every shape, square or not
ImagesAnyShape ==
    ImagePool \cup { FitsImage("r", QInt(1), QInt(1), <<<<1, 2>>>>, Psf1),
                     FitsImage("i", QInt(1), QInt(2), <<<<1>>, <<0>>, <<3>>>>, Psf1) }

ProfileKeys == {"exp", "dev", "gauss"}

ShapeSigmas == {Q(1, 100), Q(1, 25), QInt(2)}

ShapeRhos == {Q(1, 4), Q(9, 10)}

ShapePhis == {Q(1, 2), QInt(3)}

InitImage ==
    /\ NoLikeCall
    /\ \E s \in ShapeSigmas, r \in ShapeRhos, p \in ShapePhis, key \in ProfileKeys,
          img \in ImagesAnyShape :
          call = [at |-> "called", sig_s |-> s, rho_s |-> r, phi_s |-> p, prof_type |-> key,
                  u |-> <<QZero, QZero>>, img |-> img, trans |-> << >>, mix |-> << >>,
                  psf_grid |-> << >>, value |-> << >>, raised |-> "",
                  mixtures |-> 0, densities |-> 0]

\* R_s = gen_galaxy_transformation(sig_s, rho_s, phi_s)
Transform ==
    /\ call.at = "called"
    /\ LET Done(trans) ==
               [call EXCEPT !.trans = trans,
                            !.at = IF trans.Tinv = LinAlgError THEN "raised" ELSE "transformed",
                            !.raised = IF trans.Tinv = LinAlgError THEN "LinAlgError" ELSE ""]
       IN  call' = Done(GalaxyTransformation(call.sig_s, call.rho_s, call.phi_s))
    /\ UNCHANGED likeVars

\* assert galaxy_prof_dict.has_key(prof_type), "unknown galaxy profile type"
ProfAssert ==
    /\ call.at = "transformed"
    /\ call' = IF has_key(galaxy_prof_dict, call.prof_type)
               THEN [call EXCEPT !.at = "asserted"]
               ELSE [call EXCEPT !.at = "raised", !.raised = AssertionError]
    /\ UNCHANGED likeVars

\* weights, means, covars = celeste_fast.gen_galaxy_prof_psf_mixture_params(...)
ProfMixture ==
    /\ call.at = "asserted"
    /\ call' = [call EXCEPT !.mix = ProfPsfMixture(call.prof_type, call.trans.Tinv, call.u, call.img),
                            !.mixtures = @ + 1,
                            !.at = "mixed"]
    /\ UNCHANGED likeVars

\* psf_grid = fast_gmm_like(...)
ProfDensity ==
    /\ call.at = "mixed"
    /\ call' = [call EXCEPT !.psf_grid = ProfPsfGrid(call.mix, call.img),
                            !.densities = @ + 1,
                            !.at = "evaluated"]
    /\ UNCHANGED likeVars

\* return psf_grid.reshape(img.nelec.shape).T
ProfReturn ==
    /\ call.at = "evaluated"
    /\ call' = [call EXCEPT !.value = ProfPsfReturn(call.psf_grid, call.img), !.at = "returned"]
    /\ UNCHANGED likeVars

NextImage == Transform \/ ProfAssert \/ ProfMixture \/ ProfDensity \/ ProfReturn

SpecImage == InitImage /\ [][NextImage]_vars

\* C2: the array gen_galaxy_prof_psf_image returns has the shape of the
\* image's count array img.nelec, for square and non-square images alike.
C2_ShapeOfCounts ==
    call.at = "returned" => Shape(call.value) = Shape(call.img.nelec)

\* the same, for the square images only
C2_ShapeOfSquareCounts ==
    (call.at = "returned" /\ Len(call.img.nelec) = Len(call.img.nelec[1])) =>
        Shape(call.value) = Shape(call.img.nelec)

\* C4: with a profile key other than 'exp' and 'dev' the call raises the
\* unknown-profile-type error before any mixture component is computed or any
\* density evaluated, and returns no value; with 'exp' or 'dev' the error is
\* never raised.
C4_UnknownProfile ==
    /\ call.prof_type \notin {"exp", "dev"} =>
          /\ call.at \in {"called", "transformed", "raised"}
          /\ call.mixtures = 0
          /\ call.densities = 0
          /\ call.value = << >>
          /\ call.at = "raised" => call.raised = AssertionError
    /\ call.prof_type \in {"exp", "dev"} => call.raised # AssertionError

\* the call made in one step, as galaxy_source_like makes it, ends as the
\* call made statement by statement
ProfImageInOneStep ==
    (call.at \in {"raised", "returned"}) =>
        LET whole == gen_galaxy_prof_psf_image(call.prof_type, call.trans.Tinv, call.u, call.img)
        IN  /\ whole.raised = call.raised
            /\ whole.value = call.value

\* a call with an unknown key has raised
C4_Witness ==
    /\ call.at = "raised"
    /\ call.prof_type = "gauss"
    /\ call.raised = AssertionError

\* C8: for sigma > 0, rho in (0,1) and phi in (0,pi) the matrix G is
\* non-singular, its determinant being re_deg^2 * rho with
\* re_deg >= 1/30/3600; neither inversion fails; and T * Tinv is the identity.
C8_TransformInvertible ==
    (call.at \notin {"none", "called"}) =>
        LET trans == call.trans
        IN  /\ QLeq(QDiv(Q(1, 30), QInt(3600)), trans.re_deg)
            /\ MatDet(trans.G) = QMul(QMul(trans.re_deg, trans.re_deg), call.rho_s)
            /\ MatDet(trans.G) # QZero
            /\ trans.T # LinAlgError
            /\ trans.Tinv # LinAlgError
            /\ call.raised # "LinAlgError"
            /\ MatDot(trans.T, trans.Tinv) = Identity2

\* the transformation has been computed for a radius above the floor and an
\* angle with non-zero sine and cosine
C8_Witness ==
    /\ call.at = "transformed"
    /\ QLess(Q(1, 30), call.sig_s)
    /\ call.trans.G[1][2] # QZero
    /\ call.trans.G[1][1] # QZero
    /\ call.trans.Tinv # Identity2

(***************************************************************************)
(* galaxy_shape_prior_constrained.  CelestePy.util.like is not part of the *)
(* source here; fast_inv_gamma_lnpdf is modelled from the design text as   *)
(* the log-density of the inverse-gamma distribution.                      *)
(***************************************************************************)
\* np.pi, to five decimals
np_pi == Q(314159, 100000)

\* -np.inf
NegInf == [neg_inf |-> TRUE, raised |-> FALSE, val |-> LZero]

RECURSIVE Factorial(_)
Factorial(k) == IF k <= 1 THEN 1 ELSE k * Factorial(k - 1)

\* a0 * log(b0) - log(Gamma(a0)) - (a0 + 1) * log(x) - b0 / x for a whole a0,
\* a failure for x <= 0
fast_inv_gamma_lnpdf(x, a0, b0) ==
    IF x.n <= 0 THEN [neg_inf |-> FALSE, raised |-> TRUE, val |-> LZero]
    ELSE [neg_inf |-> FALSE, raised |-> FALSE,
          val |-> LSub(LSub(LScale(a0, Log(b0)), Log(QInt(Factorial(QFloor(a0) - 1)))),
                       LAdd(LScale(QAdd(a0, QOne), Log(x)), L(QDiv(b0, x))))]

\* the range test with the boundaries let through
OutOfRange_Closed(theta, sig, phi, rho) ==
    \/ QLess(theta, QZero) \/ QLess(QOne, theta)
    \/ QLess(sig, QZero)
    \/ QLess(phi, QZero) \/ QLess(np_pi, phi)
    \/ QLess(rho, QZero) \/ QLess(QOne, rho)

\* theta <= 0. or theta >= 1. or sig <= 0. or phi <= 0. or phi >= np.pi or
\* rho <= 0. or rho >= 1.
OutOfRange(theta, sig, phi, rho) ==
    \/ QLeq(theta, QZero) \/ QLeq(QOne, theta)
    \/ QLeq(sig, QZero)
    \/ QLeq(phi, QZero) \/ QLeq(np_pi, phi)
    \/ QLeq(rho, QZero) \/ QLeq(QOne, rho)

galaxy_shape_prior_constrained(theta, sig, phi, rho) ==
    IF OutOfRange(theta, sig, phi, rho) THEN NegInf
    ELSE fast_inv_gamma_lnpdf(QMul(sig, sig), QOne, QOne)

PriorThetas == {Q(-1, 2), QZero, Q(1, 4), Q(1, 2), QOne}

PriorSigmas == {QInt(-1), QZero, Q(1, 2), QInt(3)}

PriorPhis == {QZero, QOne, QInt(3), np_pi, QInt(4)}

PriorRhos == {QZero, Q(1, 4), Q(3, 4), QOne}

InitPrior ==
    /\ NoLikeCall
    /\ \E a \in PriorThetas, s \in PriorSigmas, p \in PriorPhis, r \in PriorRhos :
          call = [at |-> "called", theta |-> a, sig |-> s, phi |-> p, rho |-> r, value |-> NegInf]

\* the range test, and return -np.inf
PriorRangeCheck ==
    /\ call.at = "called"
    /\ call' = IF OutOfRange(call.theta, call.sig, call.phi, call.rho)
               THEN [call EXCEPT !.at = "returned", !.value = NegInf]
               ELSE [call EXCEPT !.at = "in_range"]
    /\ UNCHANGED likeVars

\* return fast_inv_gamma_lnpdf(sig*sig, a0=1., b0=1.)
PriorDensity ==
    /\ call.at = "in_range"
    /\ call' = [call EXCEPT !.at = "returned",
                            !.value = fast_inv_gamma_lnpdf(QMul(call.sig, call.sig), QOne, QOne)]
    /\ UNCHANGED likeVars

NextPrior == PriorRangeCheck \/ PriorDensity

SpecPrior == InitPrior /\ [][NextPrior]_vars

\* theta in (0,1), sig in (0,inf), phi in (0,pi), rho in (0,1)
InOpenDomain(theta, sig, phi, rho) ==
    /\ QLess(QZero, theta) /\ QLess(theta, QOne)
    /\ QLess(QZero, sig)
    /\ QLess(QZero, phi) /\ QLess(phi, np_pi)
    /\ QLess(QZero, rho) /\ QLess(rho, QOne)

\* the inverse-gamma log-density with a0 = 1, b0 = 1: -2 * log(x) - 1/x
InverseGammaLogDensity11(x) == LSub(LScale(QInt(-2), Log(x)), L(QInv(x)))

\* C6: galaxy_shape_prior_constrained returns -inf, and does not raise, when
\* an argument is outside or on the boundary of its open domain, and
\* otherwise returns the inverse-gamma log-density at sig*sig with a0 = 1,
\* b0 = 1, the same for every theta, phi and rho of the domain.
C6_PriorRange ==
    (call.at = "returned") =>
        /\ ~call.value.raised
        /\ IF InOpenDomain(call.theta, call.sig, call.phi, call.rho)
           THEN /\ ~call.value.neg_inf
                /\ call.value.val = InverseGammaLogDensity11(QMul(call.sig, call.sig))
                /\ \A a \in PriorThetas, p \in PriorPhis, r \in PriorRhos :
                      InOpenDomain(a, call.sig, p, r) =>
                         galaxy_shape_prior_constrained(a, call.sig, p, r) = call.value
           ELSE call.value = NegInf
        /\ galaxy_shape_prior_constrained(call.theta, call.sig, call.phi, call.rho) = call.value

\* the prior has returned -inf for phi = pi with every other argument inside
\* its domain
C6_Witness ==
    /\ call.at = "returned"
    /\ call.phi = np_pi
    /\ InOpenDomain(call.theta, call.sig, QOne, call.rho)
    /\ call.value = NegInf

(***************************************************************************)
(* constrain_params and unconstrain_params.  np.exp and np.log are         *)
(* computed exactly, in the field of fractions of polynomials in the two   *)
(* transcendental numbers s = e^(1/2) and pi with rational coefficients:   *)
(* a polynomial is a function from monomials <<a, b>> (for s^a * pi^b, a   *)
(* of either sign) to non-zero coefficients, a fraction is a pair num, den *)
(* of polynomials, and a real number is either a fraction f                *)
(* ([log |-> FALSE, f |-> f]) or the logarithm of a positive fraction      *)
(* ([log |-> TRUE, f |-> f]).  The logarithm of a power of s is the        *)
(* rational it equals.                                                     *)
(***************************************************************************)
PConst(q) == IF q = QZero THEN << >> ELSE (<<0, 0>> :> q)

PAdd(f, g) == LogsAdd(f, g)

PNeg(f) == Stored([m \in DOMAIN f |-> QNeg(f[m])])

\* the sum of f[a] * g[b] over the pairs <<a, b>> of S
RECURSIVE SumOfProducts(_, _, _)
SumOfProducts(S, f, g) ==
    LET Rest(c) == QAdd(QMul(f[c[1]], g[c[2]]), SumOfProducts(S \ {c}, f, g))
    IN  IF S = {} THEN QZero ELSE Rest(CHOOSE c \in S : TRUE)

PMul(f, g) ==
    Sparse(Stored([m \in {<<a[1] + b[1], a[2] + b[2]>> : a \in DOMAIN f, b \in DOMAIN g} |->
        SumOfProducts({c \in (DOMAIN f) \X (DOMAIN g) :
                          <<c[1][1] + c[2][1], c[1][2] + c[2][2]>> = m}, f, g)]))

\* s^k * f
PShift(f, k) == Stored([m \in {<<a[1] + k, a[2]>> : a \in DOMAIN f} |-> f[<<m[1] - k, m[2]>>]])

\* the largest exponent of s in f (f # 0)
TopExp(f) == CHOOSE a \in {m[1] : m \in DOMAIN f} : \A b \in {m[1] : m \in DOMAIN f} : b <= a

Frac(num, den) == [num |-> num, den |-> den]

FConst(q) == Frac(PConst(q), PConst(QOne))

FOne == FConst(QOne)

\* np.pi
FPi == Frac((<<0, 1>> :> QOne), PConst(QOne))

FAdd(x, y) == Frac(PAdd(PMul(x.num, y.den), PMul(y.num, x.den)), PMul(x.den, y.den))

FSub(x, y) == Frac(PAdd(PMul(x.num, y.den), PNeg(PMul(y.num, x.den))), PMul(x.den, y.den))

FDiv(x, y) == Frac(PMul(x.num, y.den), PMul(x.den, y.num))

\* equality of the two real numbers
FEq(x, y) == PMul(x.num, y.den) = PMul(y.num, x.den)

\* every coefficient of f is positive: f > 0, s and pi being positive
PPositive(f) == f # << >> /\ \A m \in DOMAIN f : f[m].n > 0

Real(f) == [log |-> FALSE, f |-> f]

\* -v
Minus(v) == IF v.log THEN [log |-> TRUE, f |-> Frac(v.f.den, v.f.num)]
            ELSE Real(Frac(PNeg(v.f.num), v.f.den))

\* np.exp(v), for v a logarithm or a multiple q of 1/2: s^(2q)
np_exp(v) ==
    IF v.log THEN v.f
    ELSE Frac((<<QFloor(QMul(QInt(2), QDiv(Coef(v.f.num, <<0, 0>>), v.f.den[<<0, 0>>]))), 0>> :> QOne),
              PConst(QOne))

\* np.log(f), f > 0
np_log(f) ==
    LET Power(k) == IF f.num = PShift(f.den, k) THEN Real(FConst(Q(k, 2)))
                    ELSE [log |-> TRUE, f |-> f]
    IN  Power(TopExp(f.num) - TopExp(f.den))

\* 1./(1.+np.exp(-v))
Sigmoid(v) == FDiv(FOne, FAdd(FOne, np_exp(Minus(v))))

\* the third entry computed with 1 in the place of np.pi
unconstrain_params_UnitPhi(th_constrained) ==
    << np_log(FDiv(th_constrained[1], FSub(FOne, th_constrained[1]))),
       np_log(th_constrained[2]),
       np_log(FDiv(th_constrained[3], FSub(FOne, th_constrained[3]))),
       np_log(FDiv(th_constrained[4], FSub(FOne, th_constrained[4]))) >>

\* the four entries unconstrain_params returns
unconstrain_params(th_constrained) ==
    << np_log(FDiv(th_constrained[1], FSub(FOne, th_constrained[1]))),
       np_log(th_constrained[2]),
       np_log(FDiv(th_constrained[3], FSub(FPi, th_constrained[3]))),
       np_log(FDiv(th_constrained[4], FSub(FOne, th_constrained[4]))) >>

\* the four entries constrain_params returns
constrain_params(t) ==
    << Sigmoid(t[1]),
       np_exp(t[2]),
       FDiv(FPi, FAdd(FOne, np_exp(Minus(t[3])))),
       Sigmoid(t[4]) >>

\* the largest number of conversions made one after the other
MaxTrips == 2

\* unconstrained vectors: every entry a multiple of 1/2
FreeVectors ==
    {<<Real(FConst(a)), Real(FConst(b)), Real(FConst(c)), Real(FConst(d))>> :
        a \in {Q(-1, 2), QZero, QInt(40)}, b \in {QInt(-2), Q(1, 2)},
        c \in {QInt(-1), QZero, Q(3, 2)}, d \in {QInt(-3), QInt(1)}}

\* constrained vectors: theta in (0,1), sigma > 0, phi in (0,pi), rho in (0,1)
ShapeVectors ==
    {<<FConst(a), FConst(b), FConst(c), FConst(d)>> :
        a \in {Q(1, 4), Q(1, 2)}, b \in {Q(1, 30), QInt(3)},
        c \in {Q(1, 2), QInt(3)}, d \in {Q(1, 10), Q(3, 4)}}

InitParams ==
    /\ NoLikeCall
    /\ \/ \E v \in FreeVectors :
             call = [at |-> "unconstrained", given |-> "free", arg |-> v, free |-> v,
                     shape |-> << >>, trips |-> 0]
       \/ \E v \in ShapeVectors :
             call = [at |-> "constrained", given |-> "shape", arg |-> v, free |-> << >>,
                     shape |-> v, trips |-> 0]

\* shape = constrain_params(free)
Constrain ==
    /\ call.at = "unconstrained"
    /\ call.trips < MaxTrips
    /\ call' = [call EXCEPT !.shape = constrain_params(call.free),
                            !.at = "constrained", !.trips = @ + 1]
    /\ UNCHANGED likeVars

\* free = unconstrain_params(shape)
Unconstrain ==
    /\ call.at = "constrained"
    /\ call.trips < MaxTrips
    /\ call' = [call EXCEPT !.free = unconstrain_params(call.shape),
                            !.at = "unconstrained", !.trips = @ + 1]
    /\ UNCHANGED likeVars

NextParams == Constrain \/ Unconstrain

SpecParams == InitParams /\ [][NextParams]_vars

\* the two real numbers are equal
SameReal(v, w) == v.log = w.log /\ FEq(v.f, w.f)

\* 0 < f < top, for f and top - f with positive coefficients
Between(f, top) ==
    /\ PPositive(f.num) /\ PPositive(f.den)
    /\ PPositive(FSub(top, f).num) /\ PPositive(FSub(top, f).den)

=============================================================================
